---- MODULE Spec2Model ----
(***************************************************************************)
(* A model of the hexy query-criteria / repository layer.                  *)
(*                                                                         *)
(* The repository ships the shared package under two roots (src/ and       *)
(* hexy/python/src/); files that are identical in both appear once.  The   *)
(* model follows the hexy/python build: it is the one whose Filter,        *)
(* Filters and Order expose the create(...) constructors that criteria.py  *)
(* calls.  Module import and the construction of exception objects are not *)
(* modelled: a raised error is the name of its kind.                       *)
(*                                                                         *)
(* Python objects are records carrying exactly the attributes their class  *)
(* declares; reading an attribute a class does not declare raises          *)
(* AttributeError, as it does in Python.                                   *)
(*                                                                         *)
(* The module holds several specifications over one set of variables:      *)
(*   SpecDataSource  lazy connection of PostgresDataSource/MySQLDataSource *)
(*   SpecCriteria    the heap of Criteria objects and its mutators         *)
(*   SpecConverter   DynamoDBCriteriaConverter.convert                     *)
(*   SpecRepository  the repositories' calls on their DataSource           *)
(*   SpecConstruction the create(...) factories of the criteria classes    *)
(*   SpecFilters     one Filters collection and its methods                *)
(*   SpecEventBus    hexy-core's EventBus                                  *)
(*   SpecSemanticEngine  hexy-core's SemanticEngine                        *)
(***************************************************************************)
EXTENDS Integers, Sequences, FiniteSets, TLC

VARIABLES
    conn,           \* DataSource._conn: 0 is None, n > 0 the n-th connection
    connectCalls,   \* how often asyncpg.connect / aiomysql.connect was invoked
    inFlight,       \* connect invocations awaited and not yet returned
    completed,      \* connect invocations that returned a connection
    pc,             \* per coroutine: where it is suspended
    opsLeft,        \* operations the callers may still start
    heap,           \* the Criteria objects, by identity 1..Len(heap)
    last,           \* the last Criteria operation and how it ended
    copyOf,         \* the latest successful copy(): <<original, copy>>
    convIn,         \* the Criteria handed to convert
    convOut,        \* what convert returned or raised
    table,          \* the rows the relational backend stores
    ddbItems,       \* the items of the DynamoDB table
    memData,        \* InMemoryDataSource._data: index name -> doc id -> body
    dsCall,         \* the last call a repository made on its DataSource
    repoOut,        \* what the repository operation returned or raised
    built,          \* the last factory call: its name, arguments and outcome
    coll,           \* a Filters collection: its filters list
    collOut,        \* the last call on the collection and its outcome
    subscribers,    \* EventBus.subscribers: event type -> list of handlers
    event_history,  \* EventBus.event_history
    published,      \* how many publish calls the bus has seen
    delivery,       \* the publish call in progress: its type and loop index
    invoked,        \* the handlers the latest publish has called, in order
    atStart,        \* the subscriber list when the latest publish started
    artifacts,      \* SemanticEngine.artifacts: the registered ids
    relationships,  \* SemanticEngine.relationships
    engineEvents,   \* event_history of the engine's own bus
    engineLog       \* level of the engine's last log line

dsVars   == <<conn, connectCalls, inFlight, completed, pc, opsLeft>>
critVars == <<heap, last, copyOf>>
convVars == <<convIn, convOut>>
repoVars == <<table, ddbItems, memData, dsCall, repoOut>>
ctorVars == <<built, coll, collOut>>
ebVars   == <<subscribers, event_history, published, delivery, invoked, atStart>>
seVars   == <<artifacts, relationships, engineEvents, engineLog>>
coreVars == <<ebVars, seVars>>
vars     == <<dsVars, critVars, convVars, repoVars, ctorVars, coreVars>>

(***************************************************************************)
(* Bounds of the model.                                                    *)
(***************************************************************************)
NumTasks == 3
MaxOps == 7
MaxCriteria == 3
MaxFilters == 2
MaxOr == 2
RecursionLimit == 4

Tasks == 1..NumTasks

(***************************************************************************)
(* PostgresDataSource / MySQLDataSource: the lazily established connection *)
(***************************************************************************)
DsOps == {"execute", "fetchrow", "fetch"}

\* __init__: self._conn = None; no coroutine is running.
DsInit ==
    /\ conn = 0
    /\ connectCalls = 0
    /\ inFlight = 0
    /\ completed = 0
    /\ pc = [t \in Tasks |-> "idle"]
    /\ opsLeft = MaxOps

\* A guard that holds whatever self._conn is: connecting on every call.
ConnectsAlways(c) == TRUE

\* `if not self._conn:` -- a connection object is truthy, None is not.
NeedsConnect(c) == c = 0

\* A caller starts execute / fetchrow / fetch.  The coroutine runs without
\* suspension up to its first await: _ensure_connection tests self._conn and,
\* when it is None, invokes connect and suspends on it.
StartOp(t) ==
    /\ UNCHANGED <<critVars, convVars, repoVars, ctorVars, coreVars>>
    /\ pc[t] = "idle"
    /\ opsLeft > 0
    /\ opsLeft' = opsLeft - 1
    /\ \E op \in DsOps :
        IF NeedsConnect(conn)
        THEN /\ connectCalls' = connectCalls + 1
             /\ inFlight' = inFlight + 1
             /\ pc' = [pc EXCEPT ![t] = "connecting"]
        ELSE /\ pc' = [pc EXCEPT ![t] = "query"]
             /\ UNCHANGED <<connectCalls, inFlight>>
    /\ UNCHANGED <<conn, completed>>

\* The awaited connect returns: self._conn = <the new connection>, and the
\* operation goes on to await its query on self._conn.
ConnectReturns(t) ==
    /\ UNCHANGED <<critVars, convVars, repoVars, ctorVars, coreVars>>
    /\ pc[t] = "connecting"
    /\ conn' = completed + 1
    /\ inFlight' = inFlight - 1
    /\ completed' = completed + 1
    /\ pc' = [pc EXCEPT ![t] = "query"]
    /\ UNCHANGED <<connectCalls, opsLeft>>

\* The awaited connect raises: the assignment never happens and the error
\* propagates to the caller of the operation.
ConnectFails(t) ==
    /\ UNCHANGED <<critVars, convVars, repoVars, ctorVars, coreVars>>
    /\ pc[t] = "connecting"
    /\ inFlight' = inFlight - 1
    /\ pc' = [pc EXCEPT ![t] = "idle"]
    /\ UNCHANGED <<conn, connectCalls, completed, opsLeft>>

\* The query on self._conn returns and so does the operation.
QueryReturns(t) ==
    /\ UNCHANGED <<critVars, convVars, repoVars, ctorVars, coreVars>>
    /\ pc[t] = "query"
    /\ pc' = [pc EXCEPT ![t] = "idle"]
    /\ UNCHANGED <<conn, connectCalls, inFlight, completed, opsLeft>>

DsNext ==
    \E t \in Tasks :
        \/ StartOp(t)
        \/ ConnectReturns(t)
        \/ ConnectFails(t)
        \/ QueryReturns(t)

\* Callers that never overlap: a call is started only once every earlier call
\* has returned or raised.
StartOpSeq(t) ==
    /\ \A u \in Tasks : pc[u] = "idle"
    /\ StartOp(t)

DsSeqNext ==
    \E t \in Tasks :
        \/ StartOpSeq(t)
        \/ ConnectReturns(t)
        \/ ConnectFails(t)
        \/ QueryReturns(t)

(***************************************************************************)
(* Criteria, Filters, Filter, Order                                        *)
(***************************************************************************)
\* A raised exception or a returned value.
Raise(kind) == [err |-> kind, val |-> <<>>]
Ok(v) == [err |-> "", val |-> v]

\* The value None
None == [none |-> TRUE]

\* getattr: an object has the attributes its class declares.
HasAttr(obj, attr) == attr \in DOMAIN obj

\* Filter is a frozen dataclass of _field, _operator, _value; it declares no
\* property, so these three are all the attributes a Filter has.
Filter(f, op, v) == [_field |-> f, _operator |-> op, _value |-> v]

\* The methods class Criteria defines.
CriteriaMethods ==
    {"create", "has_filters", "remove_filter", "add_filter", "get_filter_value",
     "has_filter", "add_or_criteria", "rename_filters", "_rename_filter",
     "copy", "to_primitives"}

\* Order.none() and Order.desc(order_by)
OrderNone == [order_by |-> "", order_type |-> "NONE"]
OrderDesc(f) == [order_by |-> f, order_type |-> "DESC"]

\* OrderType.is_none: str(self) == OrderTypes.NONE.value, where str(self) is
\* ValueObject.__str__, str(self._value), of the member the object holds, and
\* str() of a member of a (str, Enum) class is Enum.__str__: "Class.NAME".
IsNone(order_type) == ("OrderTypes." \o order_type) = "NONE"

\* Order.has_order: not self.order_type.is_none()
HasOrder(o) == ~IsNone(o.order_type)

\* The @dataclass Criteria.  limit and offset are {} for None, {n} for n.
\* __post_init__ turns or_criteria None (or empty) into a new empty list.
Criteria(fs, o, lim, off, ors) ==
    [filters |-> fs, order |-> o, limit |-> lim, offset |-> off, or_criteria |-> ors]

\* Values of the model: strings are sequences of characters.
FieldNames == {"age", "name"}
FilterPool ==
    { Filter("age", ">=", <<"1">>),
      Filter("name", "LIKE", <<"a">>) }

\* The arguments the constructor is called with.
CtorInputs ==
    { <<<<>>, OrderNone>>,
      <<<<Filter("age", ">=", <<"1">>)>>, OrderDesc("name")>>,
      <<<<Filter("name", "LIKE", <<"a">>)>>, OrderNone>> }

CIds == 1..Len(heap)

\* Filters.add: Filters(filters=[*self.filters, filter_])
FiltersAdd(fs, f) == Append(fs, f)

\* Filters.exclude: [f for f in self.filters if f.field != filter_name]
FiltersExclude(fs, name) ==
    IF \E i \in 1..Len(fs) : ~HasAttr(fs[i], "field")
    THEN Raise("AttributeError")
    ELSE Ok(SelectSeq(fs, LAMBDA f : f.field # name))

\* Filters.has: any(f.field == filter_name for f in self.filters)
FiltersHas(fs, name) ==
    IF \E i \in 1..Len(fs) : ~HasAttr(fs[i], "field")
    THEN Raise("AttributeError")
    ELSE Ok(\E i \in 1..Len(fs) : fs[i].field = name)

\* Filters.get: next((f for f in self.filters if f.field == filter_name), None)
\* (<<>> for None, <<f>> for the filter found)
FiltersGet(fs, name) ==
    IF \E i \in 1..Len(fs) : ~HasAttr(fs[i], "field")
    THEN Raise("AttributeError")
    ELSE LET hit == SelectSeq(fs, LAMBDA f : f.field = name)
         IN  Ok(IF hit = <<>> THEN <<>> ELSE <<hit[1]>>)

\* Criteria.remove_filter on object c of heap h:
\*     self.filters = self.filters.exclude(filter_name)
\*     for criteria in self.or_criteria: criteria.remove_filter(filter_name)
\* depth counts the Python frames; past the interpreter's limit the call
\* raises RecursionError.  val is the heap as the call leaves it.
RECURSIVE RemoveFilterRec(_, _, _, _), RemoveFilterLoop(_, _, _, _, _)
RemoveFilterRec(h, c, name, depth) ==
    IF depth > RecursionLimit THEN [err |-> "RecursionError", val |-> h]
    ELSE LET r == FiltersExclude(h[c].filters, name)
         IN  IF r.err # "" THEN [err |-> r.err, val |-> h]
             ELSE RemoveFilterLoop([h EXCEPT ![c].filters = r.val], c, 1, name, depth)
RemoveFilterLoop(h, c, i, name, depth) ==
    IF i > Len(h[c].or_criteria) THEN [err |-> "", val |-> h]
    ELSE LET r == RemoveFilterRec(h, h[c].or_criteria[i], name, depth + 1)
         IN  IF r.err # "" THEN r
             ELSE RemoveFilterLoop(r.val, c, i + 1, name, depth)

\* Criteria._rename_filter
RenameFilterOne(h, c, old, new) ==
    LET g == FiltersGet(h[c].filters, old)
    IN  IF g.err # "" THEN [err |-> g.err, val |-> h]
        ELSE IF g.val = <<>> THEN [err |-> "", val |-> h]
        ELSE LET r == RemoveFilterRec(h, c, old, 1)
             IN  IF r.err # "" THEN r
                 ELSE IF ~HasAttr(g.val[1], "value")
                      THEN [err |-> "AttributeError", val |-> r.val]
                      ELSE [err |-> "",
                            val |-> [r.val EXCEPT ![c].filters =
                                       FiltersAdd(@, Filter(new, "=", g.val[1].value))]]

\* Criteria.rename_filters with the mapping {old: new}
RenameFilters(h, c, old, new) ==
    LET hs == FiltersHas(h[c].filters, old)
    IN  IF hs.err # "" THEN [err |-> hs.err, val |-> h]
        ELSE IF hs.val THEN RenameFilterOne(h, c, old, new)
        ELSE [err |-> "", val |-> h]

\* Criteria.copy(**kwargs): the new object, or the error.  ov is the limit
\* override: [has |-> FALSE] for none given.
CopyOf(h, c, ov) ==
    IF h[c].or_criteria # <<>> /\ "clone" \notin CriteriaMethods
    THEN Raise("AttributeError")
    ELSE Ok(Criteria(h[c].filters, h[c].order,
                     IF ov.has THEN ov.limit ELSE h[c].limit,
                     h[c].offset,
                     [i \in 1..Len(h[c].or_criteria) |-> h[c].or_criteria[i]]))

NoOp == [op |-> "none", result |-> ""]

\* No Criteria object exists yet.
CritInit ==
    /\ heap = <<>>
    /\ last = NoOp
    /\ copyOf = <<>>

TotalFilters == LET RECURSIVE Sum(_)
                    Sum(i) == IF i = 0 THEN 0 ELSE Len(heap[i].filters) + Sum(i - 1)
                IN  Sum(Len(heap))
TotalOr == LET RECURSIVE Sum(_)
               Sum(i) == IF i = 0 THEN 0 ELSE Len(heap[i].or_criteria) + Sum(i - 1)
           IN  Sum(Len(heap))

\* Criteria(filters=Filters(...), order=...): a new object
NewCriteria(fs, o) ==
    /\ Len(heap) < MaxCriteria
    /\ TotalFilters + Len(fs) <= MaxFilters
    /\ heap' = Append(heap, Criteria(fs, o, {}, {}, <<>>))
    /\ last' = [op |-> "new", result |-> ""]
    /\ UNCHANGED copyOf
    /\ UNCHANGED <<dsVars, convVars, repoVars, ctorVars, coreVars>>

\* c.add_filter(f): self.filters = self.filters.add(filter_obj)
AddFilter(c, f) ==
    /\ TotalFilters < MaxFilters
    /\ heap' = [heap EXCEPT ![c].filters = FiltersAdd(@, f)]
    /\ last' = [op |-> "add_filter", result |-> ""]
    /\ UNCHANGED copyOf
    /\ UNCHANGED <<dsVars, convVars, repoVars, ctorVars, coreVars>>

\* c.remove_filter(name)
RemoveFilter(c, name) ==
    /\ LET r == RemoveFilterRec(heap, c, name, 1)
       IN  /\ heap' = r.val
           /\ last' = [op |-> "remove_filter", result |-> r.err]
    /\ UNCHANGED copyOf
    /\ UNCHANGED <<dsVars, convVars, repoVars, ctorVars, coreVars>>

\* c.rename_filters({old: new})
RenameFiltersOp(c, old, new) ==
    /\ LET r == RenameFilters(heap, c, old, new)
       IN  /\ heap' = r.val
           /\ last' = [op |-> "rename_filters", result |-> r.err]
    /\ UNCHANGED copyOf
    /\ UNCHANGED <<dsVars, convVars, repoVars, ctorVars, coreVars>>

\* c.add_or_criteria(d): self.or_criteria.append(criteria)
AddOrCriteria(c, d) ==
    /\ TotalOr < MaxOr
    /\ heap' = [heap EXCEPT ![c].or_criteria = Append(@, d)]
    /\ last' = [op |-> "add_or_criteria", result |-> ""]
    /\ UNCHANGED copyOf
    /\ UNCHANGED <<dsVars, convVars, repoVars, ctorVars, coreVars>>

CopyOverrides ==
    {[has |-> FALSE, limit |-> {}], [has |-> TRUE, limit |-> {5}],
     [has |-> TRUE, limit |-> {-1}]}

\* c.copy(**kwargs); copyOf remembers the latest copy as <<original, copy>>
Copy(c, ov) ==
    /\ LET r == CopyOf(heap, c, ov)
       IN  IF r.err # ""
           THEN /\ last' = [op |-> "copy", result |-> r.err]
                /\ UNCHANGED <<heap, copyOf>>
           ELSE /\ Len(heap) < MaxCriteria
                /\ heap' = Append(heap, r.val)
                /\ copyOf' = <<c, Len(heap) + 1>>
                /\ last' = [op |-> IF ov.has THEN "copy_with" ELSE "copy", result |-> ""]
    /\ UNCHANGED <<dsVars, convVars, repoVars, ctorVars, coreVars>>

CritNext ==
    \/ \E in \in CtorInputs : NewCriteria(in[1], in[2])
    \/ \E c \in CIds, f \in FilterPool : AddFilter(c, f)
    \/ \E c \in CIds, name \in FieldNames : RemoveFilter(c, name)
    \/ \E c \in CIds, old \in FieldNames : \E new \in FieldNames \ {old} :
          RenameFiltersOp(c, old, new)
    \/ \E c \in CIds, d \in CIds : AddOrCriteria(c, d)
    \/ \E c \in CIds, ov \in CopyOverrides : Copy(c, ov)

(***************************************************************************)
(* DynamoDBCriteriaConverter                                               *)
(***************************************************************************)
\* class Operator: the closed operator set
Operators ==
    {"=", "!=", ">", "<", "CONTAINS", "IN", ">=", "<=",
     "BEGINS_WITH", "LIKE", "NOT LIKE", "NOT IN"}

\* A Python value with its type, as dict lookup and == see it.
PyOperator(v) == [cls |-> "Operator", v |-> v]
PyFilterOperator(v) == [cls |-> "FilterOperator", v |-> v]

\* ValueObject.__eq__: NotImplemented unless the other operand has the type of
\* self; a member of the str enum Operator compares as a str and answers
\* NotImplemented for a non-str.  Python then compares identities, which
\* differ.
PyEq(a, b) == a.cls = b.cls /\ a.v = b.v

\* OPERATOR_MAPPING: keyed by FilterOperator objects
OPERATOR_MAPPING ==
    { <<PyFilterOperator("="), "eq">>,
      <<PyFilterOperator("!="), "ne">>,
      <<PyFilterOperator(">="), "gte">>,
      <<PyFilterOperator("<="), "lte">>,
      <<PyFilterOperator("<"), "lt">>,
      <<PyFilterOperator("CONTAINS"), "contains">>,
      <<PyFilterOperator("BEGINS_WITH"), "begins_with">>,
      <<PyFilterOperator("IN"), "in">>,
      <<PyFilterOperator("NOT LIKE"), "not_like">>,
      <<PyFilterOperator("NOT IN"), "not_in">> }

\* d[key] on a dict given as a set of <<key, value>> pairs
DictGet(d, key) ==
    IF \E p \in d : PyEq(p[1], key)
    THEN Ok((CHOOSE p \in d : PyEq(p[1], key))[2])
    ELSE Raise("KeyError")

\* d[k] = v on a dict with string keys
DictSet(d, k, v) == {p \in d : p[1] # k} \cup {<<k, v>>}

\* sep.join(parts) on strings given as sequences of characters
RECURSIVE Join(_, _)
Join(parts, sep) ==
    IF parts = <<>> THEN <<>>
    ELSE IF Len(parts) = 1 THEN parts[1]
    ELSE parts[1] \o <<sep>> \o Join(Tail(parts), sep)

\* FilterValue.create: None -> "null", list/tuple -> ",".join(map(str, value)),
\* anything else -> str(value).  raw is [kind, items]: kind "none", "str"
\* (items is the string) or "list" (items is the list of member strings).
FilterValueCreate(raw) ==
    IF raw.kind = "none" THEN <<"n", "u", "l", "l">>
    ELSE IF raw.kind = "list" THEN Join(raw.items, ",")
    ELSE raw.items

\* The result convert returns
ConvResult(exprs, names, values) ==
    [FilterExpression |-> Join(exprs, "AND"),
     ExpressionAttributeNames |-> names,
     ExpressionAttributeValues |-> values]

\* f":val{index}_{i}" for i, _ in enumerate(value)
InPlaceholders(index, value) ==
    [i \in 1..Len(value) |-> ":val" \o ToString(index) \o "_" \o ToString(i - 1)]

RECURSIVE DictSetAll(_, _, _, _)
DictSetAll(d, keys, vals, i) ==
    IF i > Len(keys) THEN d
    ELSE DictSetAll(DictSet(d, keys[i], <<vals[i]>>), keys, vals, i + 1)

\* The body of the loop of convert for filter_item at 0-based index, with the
\* accumulators acc = [exprs, names, values] built so far.
ConvertFilter(acc, filter_item, index) ==
    \* filter_item.field.to_primitive()['field']: a Filter has no attribute
    \* field, and the primitive of a FilterField is a str, which takes no
    \* str index.
    LET field_name == IF ~HasAttr(filter_item, "field") THEN Raise("AttributeError")
                      ELSE Raise("TypeError")
        looked == DictGet(OPERATOR_MAPPING, PyOperator(filter_item._operator))
    IN  IF field_name.err # "" THEN Raise(field_name.err)
        ELSE IF looked.err # "" THEN Raise(looked.err)
        ELSE
        LET operator == looked.val
            value == filter_item._value
            placeholder_name == "#attr" \o ToString(index)
            placeholder_value == ":val" \o ToString(index)
            names == DictSet(acc.names, placeholder_name, field_name.val)
            values == DictSet(acc.values, placeholder_value, value)
        IN  IF operator = "eq"
            THEN Ok([exprs |-> Append(acc.exprs, <<placeholder_name, "=", placeholder_value>>),
                     names |-> names, values |-> values])
            ELSE IF operator = "ne"
            THEN Ok([exprs |-> Append(acc.exprs, <<placeholder_name, "<>", placeholder_value>>),
                     names |-> names, values |-> values])
            ELSE IF operator \in {"gt", "gte", "lt", "lte"}
            THEN Ok([exprs |-> Append(acc.exprs, <<placeholder_name, operator, placeholder_value>>),
                     names |-> names, values |-> values])
            ELSE IF operator = "contains"
            THEN Ok([exprs |-> Append(acc.exprs,
                                 <<"contains(", placeholder_name, placeholder_value, ")">>),
                     names |-> names, values |-> values])
            ELSE IF operator = "begins_with"
            THEN Ok([exprs |-> Append(acc.exprs,
                                 <<"begins_with(", placeholder_name, placeholder_value, ")">>),
                     names |-> names, values |-> values])
            ELSE IF operator = "in"
            THEN Ok([exprs |-> Append(acc.exprs,
                                 <<placeholder_name, "IN", "(">>
                                   \o InPlaceholders(index, value) \o <<")">>),
                     names |-> names,
                     values |-> DictSetAll(values, InPlaceholders(index, value), value, 1)])
            ELSE Ok([exprs |-> acc.exprs, names |-> names, values |-> values])

\* for index, filter_item in enumerate(criteria.filters.filters)
RECURSIVE ConvertLoop(_, _, _)
ConvertLoop(acc, fs, i) ==
    IF i > Len(fs) THEN Ok(acc)
    ELSE LET r == ConvertFilter(acc, fs[i], i - 1)
         IN  IF r.err # "" THEN r ELSE ConvertLoop(r.val, fs, i + 1)

\* DynamoDBCriteriaConverter.convert; `if criteria.order: pass` has no effect
Convert(criteria) ==
    LET r == ConvertLoop([exprs |-> <<>>, names |-> {}, values |-> {}], criteria.filters, 1)
    IN  IF r.err # "" THEN r
        ELSE Ok(ConvResult(r.val.exprs, r.val.names, r.val.values))

\* Inputs of convert
RawValues ==
    { [kind |-> "str", items |-> <<"a">>],
      [kind |-> "list", items |-> << <<"a">>, <<"b">>, <<"c">> >>],
      [kind |-> "list", items |-> << <<"a">> >>] }
ConvFilters == {Filter(f, op, FilterValueCreate(raw)) :
                   f \in FieldNames, op \in Operators, raw \in RawValues}
ConvFilterLists ==
    {<<>>} \cup {<<f>> : f \in ConvFilters}
           \cup {<<Filter("age", ">=", <<"1">>), g>> : g \in ConvFilters}
ConvInputs == {Criteria(fs, o, {}, {}, <<>>) : fs \in ConvFilterLists,
                                               o \in {OrderNone, OrderDesc("name")}}

ConvInit == convIn = Criteria(<<>>, OrderNone, {}, {}, <<>>) /\ convOut = Convert(convIn)

\* converter.convert(criteria)
ConvertOp(criteria) ==
    /\ convIn' = criteria
    /\ convOut' = Convert(criteria)
    /\ UNCHANGED <<dsVars, critVars, repoVars, ctorVars, coreVars>>

ConvNext == \E criteria \in ConvInputs : ConvertOp(criteria)

(***************************************************************************)
(* Repositories and the calls they make on their DataSource                *)
(***************************************************************************)
TableName == "users"
Ids == {"1", "2"}
Names == {"a", "b"}

\* An aggregate, and the record mapper.to_dict gives for it: column -> str
Aggregates == [id : Ids, name : Names]
ToDict(aggregate) == <<<<"id", aggregate.id>>, <<"name", aggregate.name>>>>

\* A string given as its characters, as one piece of text
RECURSIVE StrOfChars(_)
StrOfChars(cs) == IF cs = <<>> THEN "" ELSE cs[1] \o StrOfChars(Tail(cs))

\* ", ".join(items), as pieces of text
RECURSIVE CommaJoin(_)
CommaJoin(items) ==
    IF items = <<>> THEN <<>>
    ELSE IF Len(items) = 1 THEN <<items[1]>>
    ELSE <<items[1], ", ">> \o CommaJoin(Tail(items))

\* f"{criteria}": Criteria defines no __str__ and no __format__, so the text
\* is the dataclass repr, which holds the repr of every field.  Here
\* or_criteria holds the branch values themselves.
ReprFilter(f) ==
    <<"Filter(_field=FilterField(", f._field, "), _operator=FilterOperator(",
      f._operator, "), _value=FilterValue(", StrOfChars(f._value), "))">>

RECURSIVE ReprFilterList(_)
ReprFilterList(fs) ==
    IF fs = <<>> THEN <<>>
    ELSE ReprFilter(fs[1]) \o (IF Len(fs) > 1 THEN <<", ">> ELSE <<>>)
                           \o ReprFilterList(Tail(fs))

RECURSIVE ReprCriteria(_)
RECURSIVE ReprCriteriaList(_)
ReprCriteria(c) ==
    <<"Criteria(filters=Filters(filters=[">> \o ReprFilterList(c.filters)
      \o <<"]), order=Order(order_by=OrderBy(", c.order.order_by,
           "), order_type=OrderType(", c.order.order_type,
           "), valid_order_by_fields=None), limit=None, offset=None, or_criteria=[">>
      \o ReprCriteriaList(c.or_criteria) \o <<"])">>
ReprCriteriaList(cs) ==
    IF cs = <<>> THEN <<>>
    ELSE ReprCriteria(cs[1]) \o (IF Len(cs) > 1 THEN <<", ">> ELSE <<>>)
                             \o ReprCriteriaList(Tail(cs))

\* A call on a DataSource: the DataSource that receives it, the method, the
\* query text in pieces, and the positional arguments bound to it
DsCall(ds, method, query, args) ==
    [ds |-> ds, method |-> method, query |-> query, args |-> args]

\* PostgresRepository.save / MySQLRepository.save: the INSERT statement
SaveQuery(data) ==
    <<"INSERT INTO ", TableName, " (">>
      \o CommaJoin([i \in 1..Len(data) |-> data[i][1]])
      \o <<") VALUES (">>
      \o CommaJoin([i \in 1..Len(data) |-> data[i][2]])
      \o <<")">>
SearchByIdQuery == <<"SELECT * FROM ", TableName, " WHERE id = $1">>
MatchingQuery(criteria) ==
    <<"SELECT * FROM ", TableName, " WHERE ">> \o ReprCriteria(criteria)
SearchAllQuery == <<"SELECT * FROM ", TableName>>
DeleteQuery == <<"DELETE FROM ", TableName, " WHERE id = $1">>

\* DynamoDBRepository.matching: f"SEARCH {criteria}"
DynamoMatchingQuery(criteria) == <<"SEARCH ">> \o ReprCriteria(criteria)

\* Criteria values handed to matching
RepoFilters == { Filter("name", "=", <<"a">>), Filter("id", "=", <<"1">>) }
RepoLeaves == {Criteria(fs, OrderNone, {}, {}, <<>>) :
                  fs \in {<<>>} \cup {<<f>> : f \in RepoFilters}
                                \cup {<<f, g>> : f, g \in RepoFilters}}
RepoCriteria == RepoLeaves \cup
    {Criteria(<<f>>, OrderNone, {}, {}, <<b>>) : f \in RepoFilters, b \in RepoLeaves}

RelationalKinds == {"postgres", "mysql"}

\* No operation made yet; the stored state is any set of rows with distinct ids.
RepoIdle == dsCall = <<>> /\ repoOut = Ok(None) /\ ddbItems = {} /\ memData = {}
RepoInit ==
    /\ table \in {t \in SUBSET Aggregates : \A r1, r2 \in t : r1.id = r2.id => r1 = r2}
    /\ RepoIdle

(***************************************************************************)
(* The DataSources addressed with the text protocol INDEX / GET / SEARCH /  *)
(* DELETE.  A query is given as query.split(): its whitespace-free parts.   *)
(***************************************************************************)
\* A dict with str keys, as the set of its <<key, value>> pairs
DictOf(aggregate) == {<<"id", aggregate.id>>, <<"name", aggregate.name>>}
HasKey(d, k) == \E p \in d : p[1] = k
Lookup(d, k) == (CHOOSE p \in d : p[1] = k)[2]

\* mapper.to_aggregate(data): the mapper of a bounded context rebuilds the
\* aggregate from the record to_dict gave; it reads the keys of that record.
ToAggregate(d) ==
    IF \E a \in Aggregates : DictOf(a) = d
    THEN Ok(CHOOSE a \in Aggregates : DictOf(a) = d)
    ELSE Raise("KeyError")

\* str(data).split() and json.dumps(data).split() for a dict of str values:
\* two parts for each key, the braces and commas attached to them.
TextParts(d, q) ==
    [j \in 1..(2 * Len(d)) |->
        IF j % 2 = 1
        THEN (IF j = 1 THEN "{" ELSE "") \o q \o d[(j + 1) \div 2][1] \o q \o ":"
        ELSE q \o d[j \div 2][2] \o q \o (IF j = 2 * Len(d) THEN "}" ELSE ",")]
DictReprParts(d) == TextParts(d, "'")
JsonDumpsParts(d) == TextParts(d, "\"")

\* json.loads(" ".join(parts)): the document whose dump has these parts
JsonLoads(parts) ==
    IF \E a \in Aggregates : JsonDumpsParts(ToDict(a)) = parts
    THEN Ok(DictOf(CHOOSE a \in Aggregates : JsonDumpsParts(ToDict(a)) = parts))
    ELSE Raise("JSONDecodeError")

\* the first whitespace-free part of f"{criteria}"
ReprFirstPart(c) ==
    IF c.filters = <<>>
    THEN "Criteria(filters=Filters(filters=[]),"
    ELSE "Criteria(filters=Filters(filters=[Filter(_field=FilterField("
           \o c.filters[1]._field \o "),"

\* DynamoDBDataSource.execute: INDEX and DELETE both end in put_item, which
\* replaces the item of that key.  The outcome is [err, val |-> the items].
DynamoExecute(its, parts) ==
    IF parts[1] \notin {"INDEX", "DELETE"} THEN Raise("ValueError")
    ELSE IF Len(parts) < 2 THEN Raise("IndexError")
    ELSE IF parts[1] = "INDEX" /\ Len(parts) < 3 THEN Raise("IndexError")
    ELSE LET item == IF parts[1] = "INDEX"
                     THEN {<<"key", parts[2]>>, <<"value", parts[3]>>}
                     ELSE {<<"key", parts[2]>>}
         IN  Ok({i \in its : Lookup(i, "key") # parts[2]} \cup {item})

\* DynamoDBDataSource.fetch_one: response["Item"]; get_item gives a response
\* without "Item" when no item has the key.
DynamoFetchOne(its, parts) ==
    IF Len(parts) < 2 THEN Raise("IndexError")
    ELSE IF \E i \in its : Lookup(i, "key") = parts[2]
    THEN Ok(CHOOSE i \in its : Lookup(i, "key") = parts[2])
    ELSE Raise("KeyError")

\* DynamoDBDataSource.fetch: table.scan(FilterEx), and FilterEx names nothing.
DynamoFetch(its, parts) ==
    IF Len(parts) < 1 THEN Raise("IndexError")
    ELSE IF parts[1] = "SEARCH" /\ Len(parts) < 2 THEN Raise("IndexError")
    ELSE Raise("NameError")

\* InMemoryDataSource.execute.  The outcome is [err, val |-> the new _data].
InMemoryExecute(d, parts) ==
    IF parts[1] = "INDEX"
    THEN IF Len(parts) < 3 THEN Raise("IndexError")
         ELSE LET index_name == parts[2]
                  doc_id == parts[3]
                  doc_body == JsonLoads(SubSeq(parts, 4, Len(parts)))
              IN  IF doc_body.err # "" THEN Raise(doc_body.err)
                  ELSE IF ~HasKey(d, index_name) THEN Raise("KeyError")
                  ELSE Ok({p \in d : p[1] # index_name} \cup
                          {<<index_name,
                             {q \in Lookup(d, index_name) : q[1] # doc_id}
                               \cup {<<doc_id, doc_body.val>>}>>})
    ELSE IF parts[1] = "DELETE"
    THEN IF Len(parts) < 3 THEN Raise("IndexError")
         ELSE LET index_name == parts[2]
                  doc_id == parts[3]
              IN  IF ~HasKey(d, index_name) THEN Raise("KeyError")
                  ELSE IF ~HasKey(Lookup(d, index_name), doc_id) THEN Raise("KeyError")
                  ELSE Ok({p \in d : p[1] # index_name} \cup
                          {<<index_name, {q \in Lookup(d, index_name) : q[1] # doc_id}>>})
    ELSE Raise("ValueError")

\* InMemoryDataSource.fetch_one
InMemoryFetchOne(d, parts) ==
    IF parts[1] = "GET"
    THEN IF Len(parts) < 3 THEN Raise("IndexError")
         ELSE IF ~HasKey(d, parts[2]) THEN Raise("KeyError")
         ELSE IF HasKey(Lookup(d, parts[2]), parts[3])
              THEN Ok(Lookup(Lookup(d, parts[2]), parts[3]))
              ELSE Ok({})
    ELSE Ok({})

\* InMemoryDataSource.fetch
InMemoryFetch(d, parts) ==
    IF parts[1] = "SEARCH"
    THEN IF Len(parts) < 2 THEN Raise("IndexError")
         ELSE IF ~HasKey(d, parts[2]) THEN Raise("KeyError")
         ELSE Ok({q[2] : q \in Lookup(d, parts[2])})
    ELSE Ok({})

\* search_all() on a relational repository: for every row the repository
\* evaluates self._mapper.to_aggregate()(r), a call without its argument.
SearchAllRows(rows) == IF rows # {} THEN Raise("TypeError") ELSE Ok({})

\* [self._mapper.to_aggregate(item) for item in result]
MapAll(result) ==
    IF result.err # "" THEN result
    ELSE IF \E r \in result.val : ToAggregate(r).err # ""
    THEN Raise((CHOOSE r \in result.val : ToAggregate(r).err # "").err)
    ELSE Ok({ToAggregate(r).val : r \in result.val})

\* What search_all() gives in the current state, for each pairing
SearchAllOutcome(kind) ==
    IF kind = "dynamodb" THEN MapAll(DynamoFetch(ddbItems, <<"SEARCH", "*">>))
    ELSE IF kind = "inmemory" THEN MapAll(InMemoryFetch(memData, <<"SEARCH", "*">>))
    ELSE SearchAllRows(table)

\* save(aggregate) on a relational repository.  The statement carries no
\* bound argument; whether the server accepts the inlined text is its affair.
Save(kind, aggregate, accepted) ==
    /\ kind \in RelationalKinds
    /\ dsCall' = <<DsCall(kind, "execute",SaveQuery(ToDict(aggregate)), <<>>)>>
    /\ IF accepted
       THEN /\ table' = table \cup {aggregate}
            /\ repoOut' = Ok(None)
       ELSE /\ table' = table
            /\ repoOut' = Raise("DatabaseError")
    /\ UNCHANGED <<ddbItems, memData>>
    /\ UNCHANGED <<dsVars, critVars, convVars, ctorVars, coreVars>>

\* search_by_id(identifier) on a relational repository: fetchrow gives {} (or
\* None) for no row; for a row the repository evaluates
\* self._mapper.to_aggregate()(result), a call without its required argument.
SearchById(kind, identifier) ==
    /\ kind \in RelationalKinds
    /\ dsCall' = <<DsCall(kind, "fetchrow",SearchByIdQuery, <<identifier>>)>>
    /\ repoOut' = IF \E r \in table : r.id = identifier
                  THEN Raise("TypeError")
                  ELSE Ok(None)
    /\ UNCHANGED table
    /\ UNCHANGED <<ddbItems, memData>>
    /\ UNCHANGED <<dsVars, critVars, convVars, ctorVars, coreVars>>

\* matching(criteria) on a relational repository: the repr of the Criteria is
\* sent as the WHERE clause, which is no SQL condition.
Matching(kind, criteria) ==
    /\ kind \in RelationalKinds
    /\ dsCall' = <<DsCall(kind, "fetch",MatchingQuery(criteria), <<>>)>>
    /\ repoOut' = Raise("DatabaseError")
    /\ UNCHANGED table
    /\ UNCHANGED <<ddbItems, memData>>
    /\ UNCHANGED <<dsVars, critVars, convVars, ctorVars, coreVars>>

\* search_all() on a relational repository
SearchAll(kind) ==
    /\ kind \in RelationalKinds
    /\ dsCall' = <<DsCall(kind, "fetch",SearchAllQuery, <<>>)>>
    /\ repoOut' = SearchAllOutcome(kind)
    /\ UNCHANGED table
    /\ UNCHANGED <<ddbItems, memData>>
    /\ UNCHANGED <<dsVars, critVars, convVars, ctorVars, coreVars>>

\* delete(identifier) on a relational repository
Delete(kind, identifier) ==
    /\ kind \in RelationalKinds
    /\ dsCall' = <<DsCall(kind, "execute",DeleteQuery, <<identifier>>)>>
    /\ table' = {r \in table : r.id # identifier}
    /\ repoOut' = Ok(None)
    /\ UNCHANGED <<ddbItems, memData>>
    /\ UNCHANGED <<dsVars, critVars, convVars, ctorVars, coreVars>>

\* DynamoDBRepository.matching on a DynamoDBDataSource: fetch is called with
\* the text; it evaluates table.scan(FilterEx), and FilterEx names nothing.
DynamoMatching(criteria) ==
    /\ dsCall' = <<DsCall("dynamodb", "fetch", DynamoMatchingQuery(criteria), <<>>)>>
    /\ repoOut' = Raise("NameError")
    /\ UNCHANGED table
    /\ UNCHANGED <<ddbItems, memData>>
    /\ UNCHANGED <<dsVars, critVars, convVars, ctorVars, coreVars>>

\* The parts of the text a repository of the INDEX / GET / SEARCH / DELETE
\* protocol sends
GetParts(identifier) == <<"GET", identifier>>
DeleteParts(identifier) == <<"DELETE", identifier>>
SearchAllParts == <<"SEARCH", "*">>
\* f"SEARCH {criteria}".split(), up to the part a DataSource reads
SearchParts(criteria) == <<"SEARCH", ReprFirstPart(criteria)>>
\* DynamoDBRepository.save: f"INDEX {aggregate.id} {self._mapper.to_dict(aggregate)}"
DynamoSaveParts(aggregate) == <<"INDEX", aggregate.id>> \o DictReprParts(ToDict(aggregate))
\* ElasticsearchRepository.save: f"INDEX {aggregate.id} {json.dumps(data)}"
JsonSaveParts(aggregate) == <<"INDEX", aggregate.id>> \o JsonDumpsParts(ToDict(aggregate))

\* self._mapper.to_aggregate(result) if result else None
MapOne(result) ==
    IF result.err # "" THEN result
    ELSE IF result.val # {} THEN ToAggregate(result.val)
    ELSE Ok(None)

\* A write returns None unless the DataSource raised
Written(r) == IF r.err # "" THEN Raise(r.err) ELSE Ok(None)

\* DynamoDBRepository on a DynamoDBDataSource
DynamoSave(aggregate) ==
    LET r == DynamoExecute(ddbItems, DynamoSaveParts(aggregate))
    IN  /\ dsCall' = <<DsCall("dynamodb", "execute", DynamoSaveParts(aggregate), <<>>)>>
        /\ ddbItems' = IF r.err = "" THEN r.val ELSE ddbItems
        /\ repoOut' = Written(r)
        /\ UNCHANGED <<table, memData>>
        /\ UNCHANGED <<dsVars, critVars, convVars, ctorVars, coreVars>>

DynamoSearchById(identifier) ==
    /\ dsCall' = <<DsCall("dynamodb", "fetch_one", GetParts(identifier), <<>>)>>
    /\ repoOut' = MapOne(DynamoFetchOne(ddbItems, GetParts(identifier)))
    /\ UNCHANGED <<table, ddbItems, memData>>
    /\ UNCHANGED <<dsVars, critVars, convVars, ctorVars, coreVars>>

DynamoSearchAll ==
    /\ dsCall' = <<DsCall("dynamodb", "fetch", SearchAllParts, <<>>)>>
    /\ repoOut' = SearchAllOutcome("dynamodb")
    /\ UNCHANGED <<table, ddbItems, memData>>
    /\ UNCHANGED <<dsVars, critVars, convVars, ctorVars, coreVars>>

DynamoDelete(identifier) ==
    LET r == DynamoExecute(ddbItems, DeleteParts(identifier))
    IN  /\ dsCall' = <<DsCall("dynamodb", "execute", DeleteParts(identifier), <<>>)>>
        /\ ddbItems' = IF r.err = "" THEN r.val ELSE ddbItems
        /\ repoOut' = Written(r)
        /\ UNCHANGED <<table, memData>>
        /\ UNCHANGED <<dsVars, critVars, convVars, ctorVars, coreVars>>

\* ElasticsearchRepository on an InMemoryDataSource
InMemorySave(aggregate) ==
    LET r == InMemoryExecute(memData, JsonSaveParts(aggregate))
    IN  /\ dsCall' = <<DsCall("inmemory", "execute", JsonSaveParts(aggregate), <<>>)>>
        /\ memData' = IF r.err = "" THEN r.val ELSE memData
        /\ repoOut' = Written(r)
        /\ UNCHANGED <<table, ddbItems>>
        /\ UNCHANGED <<dsVars, critVars, convVars, ctorVars, coreVars>>

InMemorySearchById(identifier) ==
    /\ dsCall' = <<DsCall("inmemory", "fetch_one", GetParts(identifier), <<>>)>>
    /\ repoOut' = MapOne(InMemoryFetchOne(memData, GetParts(identifier)))
    /\ UNCHANGED <<table, ddbItems, memData>>
    /\ UNCHANGED <<dsVars, critVars, convVars, ctorVars, coreVars>>

InMemorySearchAll ==
    /\ dsCall' = <<DsCall("inmemory", "fetch", SearchAllParts, <<>>)>>
    /\ repoOut' = SearchAllOutcome("inmemory")
    /\ UNCHANGED <<table, ddbItems, memData>>
    /\ UNCHANGED <<dsVars, critVars, convVars, ctorVars, coreVars>>

InMemoryMatching(criteria) ==
    /\ dsCall' = <<DsCall("inmemory", "fetch", SearchParts(criteria), <<>>)>>
    /\ repoOut' = MapAll(InMemoryFetch(memData, SearchParts(criteria)))
    /\ UNCHANGED <<table, ddbItems, memData>>
    /\ UNCHANGED <<dsVars, critVars, convVars, ctorVars, coreVars>>

InMemoryDelete(identifier) ==
    LET r == InMemoryExecute(memData, DeleteParts(identifier))
    IN  /\ dsCall' = <<DsCall("inmemory", "execute", DeleteParts(identifier), <<>>)>>
        /\ memData' = IF r.err = "" THEN r.val ELSE memData
        /\ repoOut' = Written(r)
        /\ UNCHANGED <<table, ddbItems>>
        /\ UNCHANGED <<dsVars, critVars, convVars, ctorVars, coreVars>>

RepoNext ==
    \/ \E kind \in RelationalKinds, a \in Aggregates, accepted \in BOOLEAN :
          Save(kind, a, accepted)
    \/ \E kind \in RelationalKinds, id \in Ids : SearchById(kind, id)
    \/ \E kind \in RelationalKinds, c \in RepoCriteria : Matching(kind, c)
    \/ \E kind \in RelationalKinds : SearchAll(kind)
    \/ \E kind \in RelationalKinds, id \in Ids : Delete(kind, id)
    \/ \E c \in RepoCriteria : DynamoMatching(c)
    \/ \E a \in Aggregates : DynamoSave(a)
    \/ \E id \in Ids : DynamoSearchById(id)
    \/ DynamoSearchAll
    \/ \E id \in Ids : DynamoDelete(id)
    \/ \E a \in Aggregates : InMemorySave(a)
    \/ \E id \in Ids : InMemorySearchById(id)
    \/ InMemorySearchAll
    \/ \E c \in RepoCriteria : InMemoryMatching(c)
    \/ \E id \in Ids : InMemoryDelete(id)

(***************************************************************************)
(* Construction: Filter.create, Filters, Order.create, Criteria.create     *)
(***************************************************************************)
\* InvalidCriteriaException(parameter, value, allowed_values): what it carries.
\* allowed_values is the set it names, {} when it is left None.
InvalidCriteria(parameter, value, allowed_values) ==
    [err |-> "InvalidCriteriaException",
     val |-> [parameter |-> parameter, value |-> value,
              allowed_values |-> allowed_values]]

\* InvalidCriteriaException.create_invalid_field: the message and the
\* attributes name the value and the allowed values.
CreateInvalidField(field, valid_fields) ==
    InvalidCriteria("field", field, valid_fields)

\* The strings s of the model for which s.strip() is empty
BlankStrings == {"", " "}

\* FilterField.create -> FilterField(_value=value); __post_init__ raises
\* InvalidArgumentException("Filter field cannot be empty") on a blank value.
FilterFieldCreate(value) ==
    IF value \in BlankStrings THEN Raise("InvalidArgumentException") ELSE Ok(value)

\* A factory without a membership test: whatever value is given is kept.
KeepsAnyValue(value) == Ok(value)

\* FilterOperator.create: membership in [e.value for e in Operator], then
\* FilterOperator(_value=value).  The __init__ is the one @dataclass wrote for
\* ValueObject, which calls no __post_init__, so the value is kept as given.
FilterOperatorCreate(value) ==
    IF value \notin Operators THEN CreateInvalidField(value, Operators) ELSE Ok(value)

\* Filter.create(field, operator, value) with field and operator strings
FilterCreate(field, operator, value) ==
    LET f == FilterFieldCreate(field)
        o == FilterOperatorCreate(operator)
    IN  IF f.err # "" THEN f
        ELSE IF o.err # "" THEN o
        ELSE Ok(Filter(f.val, o.val, FilterValueCreate(value)))

\* Filters.create(filters) of criteria/filter/filters.py: no filters -> the
\* empty collection; dicts -> Filter.create of each, in order; Filter
\* objects -> list(filters).  It takes no whitelist.
RECURSIVE FiltersCreate(_)
FiltersCreate(filters) ==
    IF filters = <<>> THEN Ok(<<>>)
    ELSE IF ~HasAttr(filters[1], "operator") THEN Ok(filters)
    ELSE LET f == FilterCreate(filters[1].field, filters[1].operator, filters[1].value)
             rest == FiltersCreate(Tail(filters))
         IN  IF f.err # "" THEN f
             ELSE IF rest.err # "" THEN rest
             ELSE Ok(<<f.val>> \o rest.val)

\* An optional list or string: [kind |-> "list", items |-> <<...>>],
\* [kind |-> "str", items |-> <<...>>] or None; bool() of it; its elements.
PyNone == [kind |-> "none", items |-> <<>>]
Truthy(x) == x.kind # "none" /\ x.items # <<>>
Elements(x) == {x.items[i] : i \in 1..Len(x.items)}

\* Filters.__init__(filters, valid_filter_fields) of criteria/filters.py and
\* its _validate_filters: filter_obj.field.value is read of each filter in
\* turn.  There a Filter is the dataclass of field, operator, value and its
\* field a FilterField, a StringValueObject, whose one attribute is _value.
FilterObject(name, op, v) == [field |-> [_value |-> name], operator |-> op, value |-> v]
RECURSIVE ValidateFilters(_, _)
ValidateFilters(filters, valid_filter_fields) ==
    IF filters = <<>> THEN Ok(None)
    ELSE IF ~HasAttr(filters[1].field, "value") THEN Raise("AttributeError")
    ELSE IF filters[1].field.value \notin Elements(valid_filter_fields)
         THEN [err |-> "DomainException",
               val |-> [parameter |-> "field", value |-> filters[1].field.value,
                        allowed_values |-> {}]]
    ELSE ValidateFilters(Tail(filters), valid_filter_fields)
FiltersInit(filters, valid_filter_fields) ==
    IF ~Truthy(valid_filter_fields) THEN Ok(filters)
    ELSE LET v == ValidateFilters(filters, valid_filter_fields)
         IN  IF v.err # "" THEN v ELSE Ok(filters)

\* s.split(sep) of a string given as a sequence of characters
RECURSIVE Split(_, _)
Split(s, sep) ==
    IF \A i \in 1..Len(s) : s[i] # sep THEN <<s>>
    ELSE LET k == CHOOSE i \in 1..Len(s) : s[i] = sep /\ \A j \in 1..(i - 1) : s[j] # sep
         IN  <<SubSeq(s, 1, k - 1)>> \o Split(SubSeq(s, k + 1, Len(s)), sep)

\* OrderType.__init__(self, value): super().__init__(value, [e.value for e in
\* OrderTypes]).  The __init__ it reaches is the one @dataclass wrote for
\* ValueObject, def __init__(self, _value): one argument too many.
OrderTypeInit(value) == Raise("TypeError")

\* OrderType.from_value; value is a string, a sequence of characters
OrderTypeFromValue(value) ==
    IF value = <<"ASC">> THEN OrderTypeInit("ASC")
    ELSE IF value = <<"DESC">> THEN OrderTypeInit("DESC")
    ELSE InvalidCriteria("order_type", value, {})

\* Order(order_by, order_type, valid_order_by_fields): __post_init__ and
\* _validate_order_by
OrderInit(order_by, order_type, valid_order_by_fields) ==
    LET order_by_values == Split(order_by, ",")
    IN  IF /\ Truthy(valid_order_by_fields)
           /\ ~ \A i \in 1..Len(order_by_values) :
                 order_by_values[i] \in Elements(valid_order_by_fields)
        THEN InvalidCriteria("order_by", order_by, {})
        ELSE Ok([order_by |-> order_by, order_type |-> order_type])

\* Order.none(): cls(OrderBy(""), OrderType(OrderTypes.NONE))
OrderNoneCall ==
    LET t == OrderTypeInit("NONE")
    IN  IF t.err # "" THEN t ELSE OrderInit(<<>>, t.val, PyNone)

\* Order.create(order_by, order_type, valid_order_by_fields); order_by and
\* order_type are [kind |-> "str", items |-> s] or PyNone.
OrderCreate(order_by, order_type, valid_order_by_fields) ==
    IF ~Truthy(order_by) THEN OrderNoneCall
    ELSE LET t == OrderTypeFromValue(IF Truthy(order_type) THEN order_type.items
                                     ELSE <<"ASC">>)
         IN  IF t.err # "" THEN t
             ELSE OrderInit(order_by.items, t.val, valid_order_by_fields)

\* Criteria.create(filters, order_by, order_type, limit, offset, valid_fields):
\* Filters.create(filters or []), then Order.create(order_by, order_type,
\* valid_fields), then the dataclass.  valid_fields reaches Order.create only.
CriteriaCreate(filters, order_by, order_type, lim, off, valid_fields) ==
    LET fs == FiltersCreate(filters)
        o == OrderCreate(order_by, order_type, valid_fields)
    IN  IF fs.err # "" THEN fs
        ELSE IF o.err # "" THEN o
        ELSE Ok(Criteria(fs.val, o.val, lim, off, <<>>))

NoCall == [call |-> "none", args |-> <<>>, result |-> Ok(None)]
\* Nothing was called yet; the collection is Filters.create(): empty.
CtorInit == built = NoCall /\ coll = <<>> /\ collOut = NoCall

Call(call, args, result) == [call |-> call, args |-> args, result |-> result]

FilterCreateOp(field, operator, value) ==
    /\ built' = Call("Filter.create", <<field, operator, value>>,
                     FilterCreate(field, operator, value))
    /\ UNCHANGED <<coll, collOut>>
    /\ UNCHANGED <<dsVars, critVars, convVars, repoVars, coreVars>>

FiltersCreateOp(filters) ==
    /\ built' = Call("Filters.create", <<filters>>, FiltersCreate(filters))
    /\ UNCHANGED <<coll, collOut>>
    /\ UNCHANGED <<dsVars, critVars, convVars, repoVars, coreVars>>

FiltersInitOp(filters, valid_filter_fields) ==
    /\ built' = Call("Filters", <<filters, valid_filter_fields>>,
                     FiltersInit(filters, valid_filter_fields))
    /\ UNCHANGED <<coll, collOut>>
    /\ UNCHANGED <<dsVars, critVars, convVars, repoVars, coreVars>>

OrderCreateOp(order_by, order_type, valid_fields) ==
    /\ built' = Call("Order.create", <<order_by, order_type, valid_fields>>,
                     OrderCreate(order_by, order_type, valid_fields))
    /\ UNCHANGED <<coll, collOut>>
    /\ UNCHANGED <<dsVars, critVars, convVars, repoVars, coreVars>>

HasOrderOp(o) ==
    /\ built' = Call("has_order", <<o>>, Ok(HasOrder(o)))
    /\ UNCHANGED <<coll, collOut>>
    /\ UNCHANGED <<dsVars, critVars, convVars, repoVars, coreVars>>

CriteriaCreateOp(filters, order_by, order_type, valid_fields) ==
    /\ built' = Call("Criteria.create", <<filters, order_by, order_type, valid_fields>>,
                     CriteriaCreate(filters, order_by, order_type, {}, {}, valid_fields))
    /\ UNCHANGED <<coll, collOut>>
    /\ UNCHANGED <<dsVars, critVars, convVars, repoVars, coreVars>>

\* Calls on one Filters collection.  Filters is frozen: add and exclude return
\* a new collection, which the caller keeps in place of the old one.
MaxColl == 3

CollAdd(f) ==
    /\ Len(coll) < MaxColl
    /\ coll' = FiltersAdd(coll, f)
    /\ collOut' = Call("add", <<f>>, Ok(coll'))
    /\ UNCHANGED built
    /\ UNCHANGED <<dsVars, critVars, convVars, repoVars, coreVars>>

CollExclude(name) ==
    /\ collOut' = Call("exclude", <<name>>, FiltersExclude(coll, name))
    /\ coll' = IF collOut'.result.err = "" THEN collOut'.result.val ELSE coll
    /\ UNCHANGED built
    /\ UNCHANGED <<dsVars, critVars, convVars, repoVars, coreVars>>

CollHas(name) ==
    /\ collOut' = Call("has", <<name>>, FiltersHas(coll, name))
    /\ UNCHANGED <<coll, built>>
    /\ UNCHANGED <<dsVars, critVars, convVars, repoVars, coreVars>>

CollGet(name) ==
    /\ collOut' = Call("get", <<name>>, FiltersGet(coll, name))
    /\ UNCHANGED <<coll, built>>
    /\ UNCHANGED <<dsVars, critVars, convVars, repoVars, coreVars>>

\* str(filter): f"{self._field} {self._operator} {self._value}"
FilterStr(f) == <<f._field, " ", f._operator, " ">> \o f._value

\* Filter.equals(other), other a Filter: self._value == str(other), a
\* FilterValue compared with a str.
FilterEquals(a, b) ==
    PyEq([cls |-> "FilterValue", v |-> a._value], [cls |-> "str", v |-> FilterStr(b)])

\* Filters.__eq__ / equals: equal lengths and a.equals(b) for each zipped pair
FiltersEquals(x, y) ==
    Len(x) = Len(y) /\ \A i \in 1..Len(x) : FilterEquals(x[i], y[i])

\* a.equals(b) for two Filters made by Filter.create
FilterEqualsOp(a, b) ==
    /\ built' = Call("Filter.equals", <<a, b>>, Ok(FilterEquals(a, b)))
    /\ UNCHANGED <<coll, collOut>>
    /\ UNCHANGED <<dsVars, critVars, convVars, repoVars, coreVars>>

\* x == y for two Filters collections made by Filters.create
FiltersEqOp(x, y) ==
    /\ built' = Call("Filters.__eq__", <<x, y>>, Ok(FiltersEquals(x, y)))
    /\ UNCHANGED <<coll, collOut>>
    /\ UNCHANGED <<dsVars, critVars, convVars, repoVars, coreVars>>

\* FilterValue.create of two values, and == of the two FilterValues: the
\* dataclass __eq__ of StringValueObject compares the _value strings.
FilterValuePairOp(raw1, raw2) ==
    /\ built' = Call("FilterValue.create", <<raw1, raw2>>,
                     Ok([first |-> FilterValueCreate(raw1),
                         second |-> FilterValueCreate(raw2),
                         equal |-> FilterValueCreate(raw1) = FilterValueCreate(raw2)]))
    /\ UNCHANGED <<coll, collOut>>
    /\ UNCHANGED <<dsVars, critVars, convVars, repoVars, coreVars>>

\* The calls and their arguments
CtorNext ==
    LET Str(s) == [kind |-> "str", items |-> s]
        List(l) == [kind |-> "list", items |-> l]
        Dict(f, op) == [field |-> f, operator |-> op, value |-> Str(<<"a">>)]
        Fields == FieldNames \cup {"ssn"}
        Dicts == {Dict(f, op) : f \in Fields, op \in {"=", "~"}}
        DictLists == {<<>>} \cup {<<d>> : d \in Dicts}
                            \cup {<<d, Dict("ssn", "=")>> : d \in Dicts}
        ObjectLists ==
            {<<>>} \cup {<<FilterObject(f, "=", "a")>> : f \in Fields}
                   \cup {<<FilterObject(f, "=", "a"), FilterObject(g, "=", "a")>> :
                            f \in FieldNames, g \in Fields}
        Whitelists == {PyNone, List(<<>>), List(<< <<"age">> >>),
                       List(<< <<"age">>, <<"name">> >>)}
        FieldWhitelists == {PyNone, List(<<>>), List(<<"age">>), List(<<"age", "name">>)}
        OrderBys == {PyNone, Str(<<>>), Str(<<"age">>), Str(<<"ssn">>),
                     Str(<<"age", ",", "name">>), Str(<<"age", ",", "ssn">>)}
        OrderTypeArgs == {PyNone, Str(<<"ASC">>), Str(<<"DESC">>), Str(<<"asc">>),
                          Str(<<"NONE">>)}
        Raws == {PyNone, Str(<<"a">>), Str(<<"a", ",", "b">>), List(<< <<"a">> >>),
                 List(<< <<"a">>, <<"b">> >>), List(<< <<"a", ",", "b">> >>),
                 List(<< <<"b">>, <<"a">> >>)}
        Made == {FilterCreate(f, op, Str(<<v>>)).val :
                    f \in FieldNames, op \in {"=", ">"}, v \in {"1", "2"}}
        MadeLists == {<<>>} \cup {<<m>> : m \in Made}
                            \cup {<<m, Filter("age", "=", <<"1">>)>> : m \in Made}
    IN  \/ \E f \in BlankStrings \cup Fields, op \in Operators \cup {"in", "~", ""},
              v \in RawValues \cup {PyNone} : FilterCreateOp(f, op, v)
        \/ \E fs \in DictLists : FiltersCreateOp(fs)
        \/ \E fs \in ObjectLists, w \in FieldWhitelists : FiltersInitOp(fs, w)
        \/ \E ob \in OrderBys, ot \in OrderTypeArgs, w \in Whitelists :
              OrderCreateOp(ob, ot, w)
        \/ \E o \in {OrderNone, OrderDesc("name"), [order_by |-> "name", order_type |-> "ASC"]} :
              HasOrderOp(o)
        \/ \E fs \in {<<>>, <<Dict("age", "=")>>, <<Dict("ssn", "=")>>, <<Dict("age", "~")>>},
              ob \in {PyNone, Str(<<"age">>)},
              ot \in {PyNone, Str(<<"ASC">>), Str(<<"asc">>), Str(<<"desc">>), Str(<<"up">>)},
              w \in {PyNone, List(<< <<"age">> >>)} :
              CriteriaCreateOp(fs, ob, ot, w)
        \/ \E r1 \in Raws, r2 \in Raws : FilterValuePairOp(r1, r2)
        \/ \E a \in Made, b \in Made : FilterEqualsOp(a, b)
        \/ \E x \in MadeLists, y \in {<<>>} \cup {<<m>> : m \in Made} : FiltersEqOp(x, y)

FiltersNext ==
    \/ \E f \in FilterPool \cup {Filter("age", "=", <<"2">>)} : CollAdd(f)
    \/ \E n \in FieldNames \cup {"ssn"} : CollExclude(n)
    \/ \E n \in FieldNames \cup {"ssn"} : CollHas(n)
    \/ \E n \in FieldNames \cup {"ssn"} : CollGet(n)

(***************************************************************************)
(* hexy-core: EventBus (events/event_bus.py)                               *)
(*                                                                         *)
(* subscribers is the dict of the bus: a function whose domain is the set  *)
(* of event types that have an entry.  An event is its type and the number *)
(* of the publish call that made it; data, timestamp and source are not    *)
(* modelled.  publish runs its handlers one after the other; a handler is  *)
(* a callback of the caller and may return, raise, or call subscribe or    *)
(* unsubscribe on the bus, so the model stops before each handler call.    *)
(* The for loop of publish walks the list object stored in subscribers     *)
(* with an index: delivery.next is that index.  unsubscribe deletes the    *)
(* entry only after it emptied that list, so a walk whose entry was        *)
(* deleted has nothing left to visit.                                      *)
(***************************************************************************)
max_history_size == 2    \* EventBus.max_history_size, scaled down from 1000
MaxPublish == 4

EventTypes == {"artifact.registered", "artifact.deleted"}
Handlers == {"h1", "h2"}

Event(event_type, n) == [type |-> event_type, n |-> n]

Members(list) == {list[k] : k \in 1..Len(list)}

KeepsEverything(history, event) == Append(history, event)

\* event_history after publish appended the event
Recorded(history, event) ==
    LET appended == Append(history, event)
    IN  IF Len(appended) > max_history_size THEN Tail(appended) ELSE appended

AppendsAlways(subs, event_type, handler) ==
    [x \in DOMAIN subs \cup {event_type} |->
        IF x = event_type
        THEN Append(IF x \in DOMAIN subs THEN subs[x] ELSE <<>>, handler)
        ELSE subs[x]]

\* subscribers after subscribe(event_type, handler)
Subscribed(subs, event_type, handler) ==
    LET withType == [x \in DOMAIN subs \cup {event_type} |->
                        IF x \in DOMAIN subs THEN subs[x] ELSE <<>>]
    IN  IF handler \notin Members(withType[event_type])
        THEN [withType EXCEPT ![event_type] = Append(@, handler)]
        ELSE withType

\* subscribers after unsubscribe(event_type, handler)
Unsubscribed(subs, event_type, handler) ==
    IF event_type \in DOMAIN subs /\ handler \in Members(subs[event_type])
    THEN LET list == subs[event_type]
             k == CHOOSE k \in 1..Len(list) :
                      list[k] = handler /\ \A m \in 1..(k - 1) : list[m] # handler
             rest == SubSeq(list, 1, k - 1) \o SubSeq(list, k + 1, Len(list))
         IN  IF rest = <<>>
             THEN [x \in DOMAIN subs \ {event_type} |-> subs[x]]
             ELSE [subs EXCEPT ![event_type] = rest]
    ELSE subs

NotDelivering == [active |-> FALSE, type |-> "", next |-> 0]

\* the for loop of publish asks the list for its next handler
Advance(subs, event_type, next) ==
    IF event_type \in DOMAIN subs /\ next < Len(subs[event_type])
    THEN [active |-> TRUE, type |-> event_type, next |-> next]
    ELSE NotDelivering

\* the handler the loop is about to call
Current == subscribers[delivery.type][delivery.next + 1]

EbInit ==
    /\ subscribers = [x \in {} |-> <<>>]
    /\ event_history = <<>>
    /\ published = 0
    /\ delivery = NotDelivering
    /\ invoked = <<>>
    /\ atStart = <<>>

Subscribe(event_type, handler) ==
    /\ ~delivery.active
    /\ subscribers' = Subscribed(subscribers, event_type, handler)
    /\ UNCHANGED <<event_history, published, delivery, invoked, atStart>>
    /\ UNCHANGED <<dsVars, critVars, convVars, repoVars, ctorVars, seVars>>

Unsubscribe(event_type, handler) ==
    /\ ~delivery.active
    /\ subscribers' = Unsubscribed(subscribers, event_type, handler)
    /\ UNCHANGED <<event_history, published, delivery, invoked, atStart>>
    /\ UNCHANGED <<dsVars, critVars, convVars, repoVars, ctorVars, seVars>>

Publish(event_type) ==
    /\ ~delivery.active
    /\ published < MaxPublish
    /\ published' = published + 1
    /\ event_history' = Recorded(event_history, Event(event_type, published + 1))
    /\ invoked' = <<>>
    /\ atStart' = IF event_type \in DOMAIN subscribers
                  THEN subscribers[event_type] ELSE <<>>
    /\ delivery' = Advance(subscribers, event_type, 0)
    /\ UNCHANGED subscribers
    /\ UNCHANGED <<dsVars, critVars, convVars, repoVars, ctorVars, seVars>>

HandlerReturns ==
    /\ delivery.active
    /\ invoked' = Append(invoked, [handler |-> Current, raised |-> FALSE])
    /\ delivery' = Advance(subscribers, delivery.type, delivery.next + 1)
    /\ UNCHANGED <<subscribers, event_history, published, atStart>>
    /\ UNCHANGED <<dsVars, critVars, convVars, repoVars, ctorVars, seVars>>

HandlerRaises ==
    /\ delivery.active
    /\ invoked' = Append(invoked, [handler |-> Current, raised |-> TRUE])
    /\ delivery' = Advance(subscribers, delivery.type, delivery.next + 1)
    /\ UNCHANGED <<subscribers, event_history, published, atStart>>
    /\ UNCHANGED <<dsVars, critVars, convVars, repoVars, ctorVars, seVars>>

HandlerSubscribes(handler) ==
    /\ delivery.active
    /\ invoked' = Append(invoked, [handler |-> Current, raised |-> FALSE])
    /\ subscribers' = Subscribed(subscribers, delivery.type, handler)
    /\ delivery' = Advance(Subscribed(subscribers, delivery.type, handler),
                           delivery.type, delivery.next + 1)
    /\ UNCHANGED <<event_history, published, atStart>>
    /\ UNCHANGED <<dsVars, critVars, convVars, repoVars, ctorVars, seVars>>

HandlerUnsubscribes(handler) ==
    /\ delivery.active
    /\ invoked' = Append(invoked, [handler |-> Current, raised |-> FALSE])
    /\ subscribers' = Unsubscribed(subscribers, delivery.type, handler)
    /\ delivery' = Advance(Unsubscribed(subscribers, delivery.type, handler),
                           delivery.type, delivery.next + 1)
    /\ UNCHANGED <<event_history, published, atStart>>
    /\ UNCHANGED <<dsVars, critVars, convVars, repoVars, ctorVars, seVars>>

EbNext ==
    \/ \E t \in EventTypes, h \in Handlers : Subscribe(t, h)
    \/ \E t \in EventTypes, h \in Handlers : Unsubscribe(t, h)
    \/ \E t \in EventTypes : Publish(t)
    \/ HandlerReturns
    \/ HandlerRaises
    \/ \E h \in Handlers : HandlerSubscribes(h)
    \/ \E h \in Handlers : HandlerUnsubscribes(h)

(***************************************************************************)
(* hexy-core: SemanticEngine (engine/semantic_engine.py)                   *)
(*                                                                         *)
(* artifacts is the set of keys of the engine's dict; relationships is its *)
(* list.  The engine publishes on its own bus, whose handlers only log:    *)
(* engineEvents is that bus's event_history.  engineLog is the level of    *)
(* the last line the engine logged.                                        *)
(***************************************************************************)
MaxRelationships == 2

ArtifactIds == {"a1", "a2"}

ValidateRelationship(relationship) ==
    relationship.source \in artifacts /\ relationship.target \in artifacts

SeInit ==
    /\ artifacts = {}
    /\ relationships = <<>>
    /\ engineEvents = <<>>
    /\ engineLog = ""

RegisterArtifact(id) ==
    /\ artifacts' = artifacts \cup {id}
    /\ engineEvents' = Recorded(engineEvents,
                                [type |-> "artifact.registered", artifact_id |-> id])
    /\ engineLog' = "info"
    /\ UNCHANGED relationships
    /\ UNCHANGED <<dsVars, critVars, convVars, repoVars, ctorVars, ebVars>>

DeleteArtifact(id) ==
    /\ IF id \notin artifacts
       THEN /\ engineLog' = "error"
            /\ UNCHANGED <<artifacts, engineEvents>>
       ELSE /\ artifacts' = artifacts \ {id}
            /\ engineEvents' = Recorded(engineEvents,
                                        [type |-> "artifact.deleted", artifact_id |-> id])
            /\ engineLog' = "info"
    /\ UNCHANGED relationships
    /\ UNCHANGED <<dsVars, critVars, convVars, repoVars, ctorVars, ebVars>>

AddRelationship(source_id, target_id) ==
    /\ Len(relationships) < MaxRelationships
    /\ LET relationship == [source |-> source_id, target |-> target_id,
                            type |-> "references"]
       IN  IF ValidateRelationship(relationship)
           THEN /\ relationships' = Append(relationships, relationship)
                /\ engineLog' = "info"
           ELSE /\ engineLog' = "error"
                /\ UNCHANGED relationships
    /\ UNCHANGED <<artifacts, engineEvents>>
    /\ UNCHANGED <<dsVars, critVars, convVars, repoVars, ctorVars, ebVars>>

SeNext ==
    \/ \E id \in ArtifactIds : RegisterArtifact(id)
    \/ \E id \in ArtifactIds : DeleteArtifact(id)
    \/ \E s \in ArtifactIds, t \in ArtifactIds : AddRelationship(s, t)

(***************************************************************************)
(* Specifications                                                          *)
(***************************************************************************)
Init ==
    /\ DsInit /\ CritInit /\ ConvInit /\ table = {} /\ RepoIdle /\ CtorInit
    /\ EbInit /\ SeInit
InitRepository ==
    /\ DsInit /\ CritInit /\ ConvInit /\ RepoInit /\ CtorInit
    /\ EbInit /\ SeInit

SpecDataSource == Init /\ [][DsNext]_vars
SpecDataSourceSeq == Init /\ [][DsSeqNext]_vars
SpecCriteria == Init /\ [][CritNext]_vars
SpecConverter == Init /\ [][ConvNext]_vars
SpecRepository == InitRepository /\ [][RepoNext]_vars
SpecConstruction == Init /\ [][CtorNext]_vars
SpecFilters == Init /\ [][FiltersNext]_vars
SpecEventBus == Init /\ [][EbNext]_vars
SpecSemanticEngine == Init /\ [][SeNext]_vars

(***************************************************************************)
(* Reading the or_criteria graph                                           *)
(***************************************************************************)
Children(h, c) == {h[c].or_criteria[i] : i \in 1..Len(h[c].or_criteria)}

RECURSIVE Closure(_, _)
Closure(h, S) ==
    LET T == S \cup UNION {Children(h, c) : c \in S}
    IN  IF T = S THEN S ELSE Closure(h, T)

\* c and everything reachable from it through or_criteria
ReachSet(h, c) == Closure(h, {c})
\* everything reachable from c through at least one or_criteria edge
Descendants(h, c) == Closure(h, Children(h, c))

\* The value of the tree below c, unfolded to depth d
RECURSIVE TreeOf(_, _, _)
TreeOf(h, c, d) ==
    [filters |-> h[c].filters, order |-> h[c].order,
     limit |-> h[c].limit, offset |-> h[c].offset,
     branches |-> IF d = 0 THEN <<>>
                  ELSE [i \in 1..Len(h[c].or_criteria) |->
                           TreeOf(h, h[c].or_criteria[i], d - 1)]]

FieldsOf(fs) == {fs[i]._field : i \in 1..Len(fs)}

(***************************************************************************)
(* Claims                                                                  *)
(***************************************************************************)

\* No object of heap h is its own descendant.
Acyclic(h) == \A c \in 1..Len(h) : c \notin Descendants(h, c)

\* C1: on a fresh DataSource, concurrently started first operations cause
\* exactly one connect: connect is never invoked while another invocation is
\* in flight or after one has completed.
C1_ConnectExactlyOnce == inFlight + completed <= 1

\* C2: copy() succeeds for every Criteria (also one with or_criteria), the
\* copy is structurally equal to the original, and operations applied to the
\* copy leave the original and its descendants unchanged.
C2_CopySucceedsEqualIndependent ==
    /\ [](Acyclic(heap) /\ last.op \in {"copy", "copy_with"} => last.result = "")
    /\ [](last.op = "copy" /\ last.result = "" =>
            TreeOf(heap, copyOf[2], MaxCriteria) = TreeOf(heap, copyOf[1], MaxCriteria))
    /\ [][\A t \in CIds :
            ( /\ copyOf # <<>>
              /\ t \in ReachSet(heap, copyOf[2]) \ ReachSet(heap, copyOf[1])
              /\ \/ \E f \in FilterPool : AddFilter(t, f)
                 \/ \E n \in FieldNames : RemoveFilter(t, n)
                 \/ \E o \in FieldNames : \E n \in FieldNames \ {o} : RenameFiltersOp(t, o, n)
                 \/ \E d \in CIds : AddOrCriteria(t, d) )
            => \A c \in ReachSet(heap, copyOf[1]) : heap'[c] = heap[c]]_vars

\* C3: remove_filter(name) leaves no filter on field name in the root or in any
\* descendant, and keeps every other filter of every node in its order.
C3_RemoveFilterEverywhere ==
    [][\A c \in CIds, name \in FieldNames :
          RemoveFilter(c, name) =>
            /\ last'.result = ""
            /\ \A n \in ReachSet(heap, c) :
                 heap'[n].filters = SelectSeq(heap[n].filters, LAMBDA f : f._field # name)]_vars

\* C4: rename_filters({old: new}) renames in the whole tree: afterwards no
\* node holds a filter on old, and every node that held one holds one on new.
C4_RenameEverywhere ==
    [][\A c \in CIds, old \in FieldNames : \A new \in FieldNames \ {old} :
          RenameFiltersOp(c, old, new) =>
            /\ last'.result = ""
            /\ \A n \in ReachSet(heap, c) :
                 /\ old \notin FieldsOf(heap'[n].filters)
                 /\ old \in FieldsOf(heap[n].filters) => new \in FieldsOf(heap'[n].filters)]_vars

\* C5: the or_criteria graph is acyclic: no Criteria is its own descendant.
C5_Acyclic == Acyclic(heap)

\* The records of t that a Criteria value selects: those satisfying all of its
\* filters, together with the selection of each or_criteria branch.
Satisfies(r, f) == f._operator = "=" /\ r[f._field] = StrOfChars(f._value)
RECURSIVE ResultSet(_, _)
ResultSet(c, t) ==
    {r \in t : \A i \in 1..Len(c.filters) : Satisfies(r, c.filters[i])}
      \cup UNION {ResultSet(c.or_criteria[j], t) : j \in 1..Len(c.or_criteria)}

RECURSIVE CountFilters(_)
RECURSIVE CountFiltersList(_)
CountFilters(c) == Len(c.filters) + CountFiltersList(c.or_criteria)
CountFiltersList(cs) ==
    IF cs = <<>> THEN 0 ELSE CountFilters(cs[1]) + CountFiltersList(Tail(cs))

Pieces(text) == {text[i] : i \in 1..Len(text)}

\* Every value a caller hands to a repository operation
CallerValues ==
    Ids \cup Names \cup {StrOfChars(f._value) : f \in RepoFilters}

\* C6: matching(c) returns exactly the records satisfying all top-level
\* filters of c, united with the result of each or_criteria branch; a backend
\* that cannot express c fails before it calls its DataSource.
C6_MatchingSemantics ==
    [][\A c \in RepoCriteria :
          ((\E kind \in RelationalKinds : Matching(kind, c)) \/ DynamoMatching(c))
          => \/ repoOut'.err = "" /\ repoOut'.val = ResultSet(c, table)
             \/ repoOut'.err # "" /\ dsCall' = <<>>]_vars

\* C7: the query text a relational repository hands to its DataSource holds
\* no caller-supplied value; values travel as bound arguments only, and
\* matching binds one argument for each filter of the Criteria.
C7_NoInlinedValues ==
    /\ [](\A i \in 1..Len(dsCall) :
            dsCall[i].ds \in RelationalKinds
              => Pieces(dsCall[i].query) \cap CallerValues = {})
    /\ [][\A kind \in RelationalKinds, c \in RepoCriteria :
            Matching(kind, c) => Len(dsCall'[1].args) = CountFilters(c)]_vars

\* C8: convert never silently drops a predicate: a result holds a condition
\* on the placeholder of every filter of the Criteria, and the only failure
\* is the named unsupported-operator error.
C8_NoSilentDrop ==
    IF convOut.err = ""
    THEN \A i \in 1..Len(convIn.filters) :
            ("#attr" \o ToString(i - 1)) \in Pieces(convOut.val.FilterExpression)
    ELSE convOut.err = "UnsupportedOperatorError"

\* C9: for a Criteria whose only filter is (field, IN, [v1..vk]), convert
\* gives exactly k value entries, one for each member in order, and the
\* FilterExpression references each of the k placeholders.
C9_InExpandsMembers ==
    \A raw \in RawValues :
       ( /\ raw.kind = "list"
         /\ Len(convIn.filters) = 1
         /\ convIn.filters[1]._operator = "IN"
         /\ convIn.filters[1]._value = FilterValueCreate(raw) )
       => /\ convOut.err = ""
          /\ convOut.val.ExpressionAttributeValues =
               {<<InPlaceholders(0, raw.items)[i], raw.items[i]>> : i \in 1..Len(raw.items)}
          /\ \A i \in 1..Len(raw.items) :
               InPlaceholders(0, raw.items)[i] \in Pieces(convOut.val.FilterExpression)

\* C10: for a Criteria with an order, convert reports ordering as unsupported:
\* its outcome differs from the outcome for the same Criteria with Order.none().
C10_OrderReported ==
    convIn.order.order_type # "NONE" => convOut # Convert([convIn EXCEPT !.order = OrderNone])

\* The repository / DataSource pairings of the model, and matching on each
RepoKinds == RelationalKinds \cup {"dynamodb", "inmemory"}
MatchingOn(kind, c) ==
    \/ kind \in RelationalKinds /\ Matching(kind, c)
    \/ kind = "dynamodb" /\ DynamoMatching(c)
    \/ kind = "inmemory" /\ InMemoryMatching(c)
EmptyCriteria == Criteria(<<>>, OrderNone, {}, {}, <<>>)

\* C11: on every repository and stored state, matching on the empty Criteria
\* completes and returns the set of aggregates search_all() returns.
C11_EmptyMatchingIsSearchAll ==
    [][\A kind \in RepoKinds :
          MatchingOn(kind, EmptyCriteria)
          => /\ repoOut'.err = ""
             /\ SearchAllOutcome(kind).err = ""
             /\ repoOut'.val = SearchAllOutcome(kind).val]_vars

\* delete on each pairing, and the ids each store holds a record for
DeleteOn(kind, identifier) ==
    \/ kind \in RelationalKinds /\ Delete(kind, identifier)
    \/ kind = "dynamodb" /\ DynamoDelete(identifier)
    \/ kind = "inmemory" /\ InMemoryDelete(identifier)
StoredIds(kind) ==
    IF kind = "dynamodb" THEN {Lookup(i, "key") : i \in ddbItems}
    ELSE IF kind = "inmemory" THEN UNION {{q[1] : q \in p[2]} : p \in memData}
    ELSE {r.id : r \in table}

\* C12: delete(id) of an id that is not stored completes without raising and
\* leaves the stored records unchanged, on every pairing; after a delete the
\* id is not stored, so a second delete has the outcome of the first.
C12_DeleteIdempotent ==
    [][\A kind \in RepoKinds, id \in Ids :
          DeleteOn(kind, id)
          => /\ id \notin StoredIds(kind)
                  => repoOut'.err = "" /\ UNCHANGED <<table, ddbItems, memData>>
             /\ repoOut'.err = "" => id \notin StoredIds(kind)']_vars

\* search_by_id on each pairing
SearchByIdOn(kind, identifier) ==
    \/ kind \in RelationalKinds /\ SearchById(kind, identifier)
    \/ kind = "dynamodb" /\ DynamoSearchById(identifier)
    \/ kind = "inmemory" /\ InMemorySearchById(identifier)

\* C13: search_by_id(id) returns the aggregate of the stored record with that
\* id, and None when no record has it; absence is never an exception.
C13_SearchByIdFoundOrNone ==
    [][\A kind \in RepoKinds, id \in Ids :
          SearchByIdOn(kind, id)
          => /\ repoOut'.err = ""
             /\ IF id \in StoredIds(kind)
                THEN repoOut'.val # None /\ repoOut'.val.id = id
                ELSE repoOut'.val = None]_vars

\* save on each pairing, and the records a store holds for an id
SaveOn(kind, aggregate) ==
    \/ kind \in RelationalKinds /\ \E accepted \in BOOLEAN : Save(kind, aggregate, accepted)
    \/ kind = "dynamodb" /\ DynamoSave(aggregate)
    \/ kind = "inmemory" /\ InMemorySave(aggregate)
StoredRecords(kind, identifier) ==
    IF kind = "dynamodb" THEN {i \in ddbItems : Lookup(i, "key") = identifier}
    ELSE IF kind = "inmemory"
         THEN UNION {{q[2] : q \in {x \in p[2] : x[1] = identifier}} : p \in memData}
    ELSE {DictOf(r) : r \in {x \in table : x.id = identifier}}

\* C14: save is an upsert by id: it succeeds whether or not the id is stored,
\* afterwards the store holds exactly one record for that id, the record of
\* the saved aggregate, and the records of the other ids are as before.
C14_SaveIsUpsert ==
    [][\A kind \in RepoKinds, a \in Aggregates :
          SaveOn(kind, a)
          => /\ repoOut'.err = ""
             /\ StoredRecords(kind, a.id)' = {DictOf(a)}
             /\ \A id \in Ids \ {a.id} :
                  StoredRecords(kind, id)' = StoredRecords(kind, id)]_vars

\* The errors that report an invalid argument of a construction
ValidationErrors == {"InvalidCriteriaException", "InvalidArgumentException", "DomainException"}

\* C15: when a non-empty whitelist W is supplied, Filters(filters, W) and
\* Criteria.create(filters, ..., valid_fields=W) with a filter on a field outside
\* W (and nothing else invalid) fail with a validation error that names an
\* offending field and the allowed set W.
C15_WhitelistEnforced ==
    LET FieldsOfObjects == {built.args[1][i].field._value : i \in 1..Len(built.args[1])}
        FieldsOfDicts == {built.args[1][i].field : i \in 1..Len(built.args[1])}
    IN  /\ ( /\ built.call = "Filters"
             /\ Truthy(built.args[2])
             /\ FieldsOfObjects \ Elements(built.args[2]) # {} )
           => /\ built.result.err \in ValidationErrors
              /\ built.result.val.value \in FieldsOfObjects \ Elements(built.args[2])
              /\ built.result.val.allowed_values = Elements(built.args[2])
        /\ ( /\ built.call = "Criteria.create"
             /\ Truthy(built.args[4])
             /\ \A i \in 1..Len(built.args[1]) : built.args[1][i].operator \in Operators
             /\ \E f \in FieldsOfDicts : <<f>> \notin Elements(built.args[4]) )
           => /\ built.result.err \in ValidationErrors
              /\ <<built.result.val.value>> \notin Elements(built.args[4])
              /\ built.result.val.value \in FieldsOfDicts
              /\ built.result.val.allowed_values = Elements(built.args[4])

C17_OrderCreate ==
    /\ built.call = "Order.create" =>
         LET order_by == built.args[1]
             order_type == built.args[2]
             valid_fields == built.args[3]
             pieces == Split(order_by.items, ",")
         IN  /\ ~Truthy(order_by) =>
                  /\ built.result.err = ""
                  /\ built.result.val.order_type = "NONE"
                  /\ ~HasOrder(built.result.val)
             /\ ( /\ Truthy(order_by)
                  /\ Truthy(valid_fields)
                  /\ order_type.items \in {<<>>, <<"ASC">>, <<"DESC">>} )
                => ( built.result.err = "" <=>
                       \A i \in 1..Len(pieces) : pieces[i] \in Elements(valid_fields) )
             /\ (Truthy(order_by) /\ built.result.err = "") =>
                  built.result.val.order_type # "NONE"
    /\ built.call = "has_order" =>
         (built.result.val <=> built.args[1].order_type # "NONE")

\* C18: a constructed Criteria never changes: whatever a caller invokes on a
\* Criteria object, every object that exists keeps its filters, order, limit,
\* offset and or_criteria, so another holder of the object observes no change;
\* a changed value only appears as a new object.
C18_CriteriaNeverChanges ==
    [][\A c \in 1..Len(heap) : c \in 1..Len(heap') /\ heap'[c] = heap[c]]_vars

C20_FiltersConsistent ==
    [][LET name == collOut'.args[1]
           onField == SelectSeq(coll, LAMBDA f : f._field = name)
       IN  /\ collOut'.call = "add" => coll' = Append(coll, collOut'.args[1])
           /\ collOut'.call = "exclude" =>
                /\ collOut'.result.err = ""
                /\ coll' = SelectSeq(coll, LAMBDA f : f._field # name)
           /\ collOut'.call = "has" =>
                /\ collOut'.result.err = ""
                /\ collOut'.result.val <=> onField # <<>>
                /\ coll' = coll
           /\ collOut'.call = "get" =>
                /\ collOut'.result.err = ""
                /\ collOut'.result.val = IF onField = <<>> THEN <<>> ELSE <<onField[1]>>
                /\ coll' = coll]_<<coll, collOut>>

\* C21: Filter equality is structural: a.equals(b) holds exactly when the two
\* Filters have the same field, operator and value, and two Filters
\* collections compare equal exactly when they hold equal filters in the same
\* order.
C21_StructuralEquality ==
    (built.call \in {"Filter.equals", "Filters.__eq__"}) =>
        (built.result.val <=> built.args[1] = built.args[2])

\* C22: Criteria.create with a non-empty order_by and otherwise valid arguments
\* returns a Criteria whose order has type ASC for order_type 'asc', DESC for
\* 'desc' and ASC for a missing order_type; for an order_type that is none of
\* the documented values it raises a validation error.
C22_OrderTypeValues ==
    ( /\ built.call = "Criteria.create"
      /\ Truthy(built.args[2])
      /\ \A i \in 1..Len(built.args[1]) :
            /\ built.args[1][i].operator \in Operators
            /\ <<built.args[1][i].field>> = built.args[2].items )
    => LET order_type == built.args[3].items
       IN  /\ order_type \in {<<>>, <<"asc">>} =>
                /\ built.result.err = ""
                /\ built.result.val.order.order_type = "ASC"
           /\ order_type = <<"desc">> =>
                /\ built.result.err = ""
                /\ built.result.val.order.order_type = "DESC"
           /\ order_type \notin {<<>>, <<"asc">>, <<"desc">>, <<"ASC">>, <<"DESC">>} =>
                built.result.err \in ValidationErrors

\* C23: every Criteria object has limit and offset each absent or a
\* non-negative integer: copy(limit=n) with a negative n stores nothing.
C23_NonNegativePagination ==
    \A c \in CIds : \A n \in heap[c].limit \cup heap[c].offset : n >= 0

\* C26: FilterValue.create keeps a list value recoverable: two different lists
\* give FilterValues that are not equal, and the FilterValue of a list is not
\* equal to the FilterValue of a plain string.
C26_ListValueRecoverable ==
    built.call = "FilterValue.create" =>
        LET raw1 == built.args[1]
            raw2 == built.args[2]
        IN  /\ (raw1.kind = "list" /\ raw2.kind = "list" /\ raw1.items # raw2.items)
                 => ~built.result.val.equal
            /\ (raw1.kind = "list" /\ raw2.kind = "str") => ~built.result.val.equal

\* C28: rename_filters({old: new}) changes only the field name: the node keeps
\* its number of filters, and for every filter it held on old it then holds a
\* filter on new with the same operator and the same value.
C28_RenameKeepsOperatorAndValue ==
    [][\A c \in CIds, old \in FieldNames : \A new \in FieldNames \ {old} :
          RenameFiltersOp(c, old, new) =>
            /\ last'.result = ""
            /\ Len(heap'[c].filters) = Len(heap[c].filters)
            /\ \A i \in 1..Len(heap[c].filters) :
                 heap[c].filters[i]._field = old =>
                   \E j \in 1..Len(heap'[c].filters) :
                      /\ heap'[c].filters[j]._field = new
                      /\ heap'[c].filters[j]._operator = heap[c].filters[i]._operator
                      /\ heap'[c].filters[j]._value = heap[c].filters[i]._value]_vars

\* C27: delete(id) on a store that holds a record with that id completes and
\* removes it: afterwards the id is not among the stored ids, no other id has
\* appeared, and the records of every other id are as before, on every
\* pairing.
C27_DeleteRemovesRecord ==
    [][\A kind \in RepoKinds, id \in Ids :
          (DeleteOn(kind, id) /\ id \in StoredIds(kind))
          => /\ repoOut'.err = ""
             /\ StoredIds(kind)' = StoredIds(kind) \ {id}
             /\ \A other \in Ids \ {id} :
                  StoredRecords(kind, other)' = StoredRecords(kind, other)]_vars

(***************************************************************************)
(* hexy-core claims                                                        *)
(***************************************************************************)
\* C24: event_history never holds more than max_history_size events, and it
\* holds exactly the most recently published events in publication order:
\* once it is full, each publish evicts the oldest event.
C24_HistoryBounded ==
    /\ Len(event_history) <= max_history_size
    /\ Len(event_history) =
           IF published < max_history_size THEN published ELSE max_history_size
    /\ \A k \in 1..Len(event_history) :
           event_history[k].n = published - Len(event_history) + k

\* C24 witness: two events have been evicted from a full history
C24_Witness ==
    /\ published = max_history_size + 2
    /\ Len(event_history) = max_history_size
    /\ event_history[1].n = 3

\* the subscriber list of an event type, empty when the type has no entry
ListOn(event_type) ==
    IF event_type \in DOMAIN subscribers THEN subscribers[event_type] ELSE <<>>

OthersKept(event_type) ==
    \A other \in EventTypes \ {event_type} : ListOn(other)' = ListOn(other)

\* C25: a handler appears at most once in an event type's list and the map
\* never holds an empty list; subscribing a handler again changes nothing, a
\* new handler goes to the end of its type's list, and unsubscribe removes
\* exactly that handler, changing nothing when it is not subscribed.
C25_SubscriberLists ==
    /\ [](\A t \in DOMAIN subscribers :
             /\ subscribers[t] # <<>>
             /\ \A a, b \in 1..Len(subscribers[t]) :
                    subscribers[t][a] = subscribers[t][b] => a = b)
    /\ [][\A t \in EventTypes, h \in Handlers :
             /\ (Subscribe(t, h) /\ h \in Members(ListOn(t)))
                    => subscribers' = subscribers
             /\ (Subscribe(t, h) /\ h \notin Members(ListOn(t)))
                    => ListOn(t)' = Append(ListOn(t), h) /\ OthersKept(t)
             /\ Unsubscribe(t, h)
                    => /\ ListOn(t)' = SelectSeq(ListOn(t), LAMBDA x : x # h)
                       /\ OthersKept(t)]_vars

\* C25 witness: a type that had two subscribers when its event was published
\* has lost its entry again, the other type keeping both of its handlers
C25_Witness ==
    /\ ~delivery.active
    /\ Len(atStart) = 2
    /\ DOMAIN subscribers = {"artifact.deleted"}
    /\ event_history[Len(event_history)].type = "artifact.registered"
    /\ Len(subscribers["artifact.deleted"]) = 2

\* C30: the event is in event_history while its handlers run, and when
\* publish returns every handler subscribed at its start has been called
\* exactly once, in subscription order, whatever the handlers did.
C30_DeliveredOnceInOrder ==
    /\ delivery.active =>
           /\ event_history # <<>>
           /\ event_history[Len(event_history)].n = published
    /\ (~delivery.active /\ published > 0) =>
           /\ \A h \in Members(atStart) :
                  Cardinality({k \in 1..Len(invoked) : invoked[k].handler = h}) = 1
           /\ \A a, b \in 1..Len(atStart) : \A p, q \in 1..Len(invoked) :
                  (a < b /\ invoked[p].handler = atStart[a]
                         /\ invoked[q].handler = atStart[b]) => p < q

\* C29: every relationship joins two artifacts that are registered
C29_RelationshipsIntact ==
    \A k \in 1..Len(relationships) :
        /\ relationships[k].source \in artifacts
        /\ relationships[k].target \in artifacts
====
